---- MODULE Spec2Model ----
(***************************************************************************)
(* Model of langchain_fax/tools.py: the Fax.Plus tools FaxPlusTool (Send)  *)
(* and FaxPlusStatusTool (Status), and of the History handler, which the   *)
(* package exports and the tests exercise but tools.py does not define.    *)
(*                                                                         *)
(* One action models one whole call of a handler's _run: parsing,          *)
(* validation, lazy client initialisation, the calls to the remote         *)
(* service and the formatting of the returned string.  What lies outside   *)
(* the repository (the file system, the faxplus client constructors, the   *)
(* remote service) is a nondeterministic choice of outcome at the place    *)
(* the code consults it.                                                   *)
(*                                                                         *)
(* A second specification, SpecWorkflow, models one run of the graph of    *)
(* examples/langgraph_workflow_example.py, whose tool nodes call the two   *)
(* handlers: one action per node, with the routing of its outgoing edge.   *)
(***************************************************************************)
EXTENDS Integers, Sequences, FiniteSets, TLC

VARIABLES
  sendTool,     \* attributes _init_client sets on a FaxPlusTool instance
  sendInits,    \* number of times FaxPlusTool._init_client has run
  statusTool,   \* attributes _init_client sets on a FaxPlusStatusTool
  statusInits,  \* number of times FaxPlusStatusTool._init_client has run
  last,         \* the most recent call: its input, outcome and remote calls
  wf            \* the run of the example workflow, NoWorkflow where none runs

vars == <<sendTool, sendInits, statusTool, statusInits, last, wf>>

(***************************************************************************)
(* Bounds.                                                                 *)
(***************************************************************************)
\* _init_client runs at most this often on one instance (caps the counters)
MaxInits == 2
\* the remote fax list holds at most this many records
MaxRecords == 2

(***************************************************************************)
(* Python values.  A dict keeps its items in insertion order.              *)
(***************************************************************************)
None == [t |-> "NoneType"]
PyStr(s) == [t |-> "str", s |-> s]
PyInt(n) == [t |-> "int", n |-> n]
PyList(n) == [t |-> "list", len |-> n]
PyDict(items) == [t |-> "dict", items |-> items]

\* bool(x), as `not x` uses it
Truthy(x) ==
  CASE x.t = "NoneType" -> FALSE
    [] x.t = "str" -> x.s # ""
    [] x.t = "int" -> x.n # 0
    [] x.t = "list" -> x.len # 0
    [] x.t = "dict" -> x.items # <<>>

\* str(x) for the values that get formatted into a message
Str(x) ==
  CASE x.t = "str" -> x.s
    [] x.t = "int" -> ToString(x.n)
    [] x.t = "NoneType" -> "None"
    [] OTHER -> "<" \o x.t \o ">"

\* dict.get(key), with None for a key the dict does not hold
Get(d, key) ==
  LET hits == SelectSeq(d.items, LAMBDA kv : kv[1] = key)
  IN IF hits = <<>> THEN None ELSE hits[Len(hits)][2]

\* dict.get(key, default)
GetDefault(d, key, default) ==
  LET hits == SelectSeq(d.items, LAMBDA kv : kv[1] = key)
  IN IF hits = <<>> THEN default ELSE hits[Len(hits)][2]

(***************************************************************************)
(* Exceptions: a class name and the text str(e) gives.                     *)
(***************************************************************************)
Exc(type, msg) == [type |-> type, msg |-> msg]
NoExc == Exc("", "")

(***************************************************************************)
(* JSON documents and json.loads.  A text is the JSON document it spells,  *)
(* or no JSON document at all.                                             *)
(***************************************************************************)
JNull == [j |-> "null"]
JStr(s) == [j |-> "string", s |-> s]
JNum(n) == [j |-> "number", n |-> n]
JArr(n) == [j |-> "array", len |-> n]
JObj(members) == [j |-> "object", members |-> members]
JInvalid == [j |-> "invalid"]
Text(doc) == [t |-> "text", doc |-> doc]

\* the Python value json.loads builds for a JSON value that is not an object
FromJsonScalar(v) ==
  CASE v.j = "null" -> None
    [] v.j = "string" -> PyStr(v.s)
    [] v.j = "number" -> PyInt(v.n)
    [] v.j = "array" -> PyList(v.len)

\* a JSON object becomes a dict; a repeated name keeps its last value
RECURSIVE DictItems(_)
DictItems(members) ==
  IF members = <<>> THEN <<>>
  ELSE LET n == Len(members)
           m == members[n]
           before == DictItems(SubSeq(members, 1, n - 1))
           others == SelectSeq(before, LAMBDA kv : kv[1] # m[1])
       IN Append(others, <<m[1], FromJsonScalar(m[2])>>)

FromJson(v) ==
  IF v.j = "object" THEN PyDict(DictItems(v.members)) ELSE FromJsonScalar(v)

\* json.loads(query): the value, or the exception it raises
Loads(query) ==
  IF query.t # "text"
  THEN [ok |-> FALSE, value |-> None,
        exc |-> Exc("TypeError",
                    "the JSON object must be str, bytes or bytearray, not "
                    \o query.t)]
  ELSE IF query.doc.j = "invalid"
  THEN [ok |-> FALSE, value |-> None,
        exc |-> Exc("JSONDecodeError",
                    "Expecting value: line 1 column 1 (char 0)")]
  ELSE [ok |-> TRUE, value |-> FromJson(query.doc), exc |-> NoExc]

\* input_data.get(...) on a value that is no dict
NoGet(value) ==
  Exc("AttributeError", "'" \o value.t \o "' object has no attribute 'get'")

(***************************************************************************)
(* The file system, as far as _run consults it: os.path.exists, open/read, *)
(* os.path.basename, os.path.splitext and str.lower on the paths used.     *)
(***************************************************************************)
PathA == "/docs/invoice.PDF"
PathB == "/tmp/notes.dat"

basename(path) ==
  CASE path = PathA -> "invoice.PDF"
    [] path = PathB -> "notes.dat"
    [] OTHER -> path

\* os.path.splitext(file_name)[1].lower()
splitext_lower(file_name) ==
  CASE file_name = "invoice.PDF" -> ".pdf"
    [] file_name = "notes.dat" -> ".dat"
    [] OTHER -> ""

_get_mime_type(extension) ==
  CASE extension = ".pdf" -> "application/pdf"
    [] extension = ".tiff" -> "image/tiff"
    [] extension = ".tif" -> "image/tiff"
    [] extension = ".jpg" -> "image/jpeg"
    [] extension = ".jpeg" -> "image/jpeg"
    [] extension = ".png" -> "image/png"
    [] extension = ".doc" -> "application/msword"
    [] extension = ".docx" ->
         "application/vnd.openxmlformats-officedocument.wordprocessingml.document"
    [] extension = ".txt" -> "text/plain"
    [] OTHER -> "application/octet-stream"

\* what the file system answers for the path of one call
FsOutcomes == {"missing", "file", "unreadable"}

OpenError(path) ==
  Exc("PermissionError", "[Errno 13] Permission denied: '" \o path \o "'")

(***************************************************************************)
(* FaxPlusTool._init_client.  A tool holds, per attribute, the id of the   *)
(* client object stored there, 0 while the attribute does not exist.  The  *)
(* outcome names the constructor that raised, or "ok".                     *)
(***************************************************************************)
NoSendClients == [files_api |-> 0, outbox_api |-> 0, accounts_api |-> 0]

SendInitOutcomes == {"ok", "Configuration", "FilesApi", "OutboxApi", "AccountsApi"}

InitError(outcome) == Exc("RuntimeError", outcome \o " could not be constructed")

\* the attributes after _init_client ran with the given outcome; id names the
\* client objects this run creates
FaxPlusTool_init_client(tool, id, outcome) ==
  CASE outcome \in {"Configuration", "FilesApi"} -> tool
    [] outcome = "OutboxApi" -> [tool EXCEPT !.files_api = id]
    [] outcome = "AccountsApi" ->
         [tool EXCEPT !.files_api = id, !.outbox_api = id]
    [] outcome = "ok" ->
         [files_api |-> id, outbox_api |-> id, accounts_api |-> id]

\* a check that never finds the attribute, so that every call initialises
hasattr_Never(tool, name) == FALSE

\* hasattr(self, name)
hasattr(tool, name) ==
  CASE name = "files_api" -> tool.files_api # 0
    [] name = "outbox_api" -> tool.outbox_api # 0
    [] name = "accounts_api" -> tool.accounts_api # 0

NoAttribute(class, name) ==
  Exc("AttributeError",
      "'" \o class \o "' object has no attribute '" \o name \o "'")

(***************************************************************************)
(* The remote service: each operation returns a value or raises.           *)
(***************************************************************************)
Ret(value) == [ok |-> TRUE, value |-> value, exc |-> NoExc]
Raises(exc) == [ok |-> FALSE, value |-> "", exc |-> exc]
NotCalled == [ok |-> FALSE, value |-> "", exc |-> Exc("n/a", "")]

UploadOutcomes ==
  {Ret("file-1"), Ret("file-2"),
   Raises(Exc("MaxRetryError", "Max retries exceeded"))}

SubmitOutcomes ==
  {Ret("fax-1"), Ret("fax-2"),
   Raises(Exc("ApiException", "(402) Payment Required"))}

\* one call of a remote operation: its arguments and what came back
Call(op, client, args, outcome) ==
  [op |-> op, client |-> client, args |-> args, outcome |-> outcome]

(***************************************************************************)
(* FaxPlusTool._run.                                                       *)
(***************************************************************************)
\* what a try body ends in: a returned string or a raised exception, with the
\* remote calls made, the tool's attributes and the runs of _init_client
Returned(text, remote, tool, ran) ==
  [raised |-> FALSE, text |-> text, exc |-> NoExc,
   remote |-> remote, tool |-> tool, ran |-> ran]
Raised(exc, remote, tool, ran) ==
  [raised |-> TRUE, text |-> "", exc |-> exc,
   remote |-> remote, tool |-> tool, ran |-> ran]

\* the outcomes of the environment one Send call may consult
SendEnv(fs, init, upload, submit) ==
  [fs |-> fs, init |-> init, upload |-> upload, submit |-> submit]

\* SendValidate with the subject checked before the recipient number
SendValidate_SubjectFirst(fax_number, subject, file_path) ==
  IF ~Truthy(subject) THEN "Error: Subject is required"
  ELSE IF ~Truthy(fax_number) THEN "Error: Recipient fax number is required"
  ELSE IF ~Truthy(file_path) THEN "Error: File path is required"
  ELSE ""

\* the required-parameter checks, in the code's order: the message of the first
\* one that fails, "" when all pass
SendValidate(fax_number, subject, file_path) ==
  IF ~Truthy(fax_number) THEN "Error: Recipient fax number is required"
  ELSE IF ~Truthy(subject) THEN "Error: Subject is required"
  ELSE IF ~Truthy(file_path) THEN "Error: File path is required"
  ELSE ""

\* SendRemote reporting the id of the uploaded file instead of the fax id
SendRemote_ReportsFileId(tool, ran, fax_number, subject, comment, file_path, env) ==
  LET file_name == basename(Str(file_path))
      mime_type == _get_mime_type(splitext_lower(file_name))
      upload == Call("upload_file", tool.files_api,
                     [filename |-> file_name, content_type |-> mime_type],
                     env.upload)
      fax == [to |-> fax_number, subject |-> subject, comment |-> comment,
              file_id |-> env.upload.value,
              direction |-> "outbound", category |-> "general"]
      send == Call("send_fax", tool.outbox_api, fax, env.submit)
  IN IF ~env.upload.ok
     THEN Raised(env.upload.exc, <<upload>>, tool, ran)
     ELSE IF ~hasattr(tool, "outbox_api")
     THEN Raised(NoAttribute("FaxPlusTool", "outbox_api"), <<upload>>, tool, ran)
     ELSE IF ~env.submit.ok
     THEN Raised(env.submit.exc, <<upload, send>>, tool, ran)
     ELSE Returned("Fax successfully queued. Fax ID: " \o env.upload.value,
                   <<upload, send>>, tool, ran)

\* the upload and the submission, with clients in place and the file read
SendRemote(tool, ran, fax_number, subject, comment, file_path, env) ==
  LET file_name == basename(Str(file_path))
      mime_type == _get_mime_type(splitext_lower(file_name))
      upload == Call("upload_file", tool.files_api,
                     [filename |-> file_name, content_type |-> mime_type],
                     env.upload)
      fax == [to |-> fax_number, subject |-> subject, comment |-> comment,
              file_id |-> env.upload.value,
              direction |-> "outbound", category |-> "general"]
      send == Call("send_fax", tool.outbox_api, fax, env.submit)
  IN IF ~env.upload.ok
     THEN Raised(env.upload.exc, <<upload>>, tool, ran)
     ELSE IF ~hasattr(tool, "outbox_api")
     THEN Raised(NoAttribute("FaxPlusTool", "outbox_api"), <<upload>>, tool, ran)
     ELSE IF ~env.submit.ok
     THEN Raised(env.submit.exc, <<upload, send>>, tool, ran)
     ELSE Returned("Fax successfully queued. Fax ID: " \o env.submit.value,
                   <<upload, send>>, tool, ran)

\* the body of the try statement
SendBody(tool, inits, query, env) ==
  LET parsed == Loads(query)
      input_data == parsed.value
      fax_number == Get(input_data, "fax_number")
      subject == Get(input_data, "subject")
      file_path == Get(input_data, "file_path")
      comment == GetDefault(input_data, "comment", PyStr(""))
      invalid == SendValidate(fax_number, subject, file_path)
      needInit == ~hasattr(tool, "files_api")
      ran == IF needInit THEN 1 ELSE 0
      tool1 == IF needInit
               THEN FaxPlusTool_init_client(tool, inits + 1, env.init)
               ELSE tool
  IN IF ~parsed.ok THEN Raised(parsed.exc, <<>>, tool, 0)
     ELSE IF input_data.t # "dict" THEN Raised(NoGet(input_data), <<>>, tool, 0)
     ELSE IF invalid # "" THEN Returned(invalid, <<>>, tool, 0)
     ELSE IF env.fs = "missing"
     THEN Returned("Error: File not found at " \o Str(file_path), <<>>, tool, 0)
     ELSE IF needInit /\ env.init # "ok"
     THEN Raised(InitError(env.init), <<>>, tool1, ran)
     ELSE IF env.fs = "unreadable"
     THEN Raised(OpenError(Str(file_path)), <<>>, tool1, ran)
     ELSE SendRemote(tool1, ran, fax_number, subject, comment, file_path, env)

\* a handler that catches the remote client's ApiException only
OnlyApiException == {"JSONDecodeError", "ApiException"}

\* the classes `except Exception` catches, among those that can arise here
ExceptionClasses ==
  {"JSONDecodeError", "TypeError", "AttributeError", "RuntimeError",
   "PermissionError", "ApiException", "MaxRetryError"}

\* how a call ends: with a returned string, or with an exception that escaped
Ends(body, escaped, result) ==
  [escaped |-> escaped, result |-> result, exc |-> IF escaped THEN body.exc ELSE NoExc,
   remote |-> body.remote, tool |-> body.tool, ran |-> body.ran]

\* SendExcept formatting the exception's class instead of its description
SendExcept_ClassName(body) ==
  IF body.exc.type = "JSONDecodeError"
  THEN Ends(body, FALSE,
            "Error: Invalid JSON input. Please provide a valid JSON object.")
  ELSE Ends(body, FALSE, "Error sending fax: " \o body.exc.type)

\* the except clauses of FaxPlusTool._run
SendExcept(body) ==
  IF body.exc.type = "JSONDecodeError"
  THEN Ends(body, FALSE,
            "Error: Invalid JSON input. Please provide a valid JSON object.")
  ELSE IF body.exc.type \in ExceptionClasses
  THEN Ends(body, FALSE, "Error sending fax: " \o body.exc.msg)
  ELSE Ends(body, TRUE, "")

\* FaxPlusTool._run(query) on a tool with the given attributes
SendOutcome(tool, inits, query, env) ==
  LET body == SendBody(tool, inits, query, env)
  IN IF body.raised THEN SendExcept(body) ELSE Ends(body, FALSE, body.text)

(***************************************************************************)
(* FaxPlusStatusTool.                                                      *)
(***************************************************************************)
NoStatusClients == [outbox_api |-> 0]

StatusInitOutcomes == {"ok", "Configuration", "OutboxApi"}

FaxPlusStatusTool_init_client(tool, id, outcome) ==
  CASE outcome \in {"Configuration", "OutboxApi"} -> tool
    [] outcome = "ok" -> [outbox_api |-> id]

\* the fields of an outbox record that _run reads
FaxRecord(status, completed, cost, pagecount, created_at) ==
  [status |-> status, completed |-> completed, cost |-> cost,
   pagecount |-> pagecount, created_at |-> created_at]
NoRecord == FaxRecord(None, None, None, None, None)

Found(record) == [ok |-> TRUE, value |-> record, exc |-> NoExc]
LookupRaises(exc) == [ok |-> FALSE, value |-> NoRecord, exc |-> exc]
NoLookup == LookupRaises(Exc("n/a", ""))

LookupOutcomes ==
  {Found(FaxRecord(PyStr("success"), PyStr("2023-01-01 12:05:00"),
                   PyInt(1), PyInt(2), PyStr("2023-01-01 12:00:00"))),
   Found(FaxRecord(PyStr("failed"), None,
                   PyInt(0), PyInt(1), PyStr("2023-01-02 12:00:00"))),
   Found(FaxRecord(PyStr("submitted"), None,
                   PyInt(0), PyInt(0), PyStr("2023-01-02 12:00:00"))),
   LookupRaises(Exc("ApiException", "(404) Not Found")),
   LookupRaises(Exc("MaxRetryError", "Max retries exceeded"))}

StatusEnv(init, lookup) == [init |-> init, lookup |-> lookup]

\* json.dumps of one value of the status block
DumpValue(x) ==
  CASE x.t = "str" -> "\"" \o x.s \o "\""
    [] x.t = "int" -> ToString(x.n)
    [] x.t = "NoneType" -> "null"

\* json.dumps(status_info, indent=2): the items in insertion order
DumpItems(items) ==
  LET line(i) == "  \"" \o items[i][1] \o "\": " \o DumpValue(items[i][2])
      RECURSIVE lines(_)
      lines(i) == IF i = 0 THEN ""
                  ELSE IF i = 1 THEN line(1)
                  ELSE lines(i - 1) \o ",\n" \o line(i)
  IN IF items = <<>> THEN "{}" ELSE "{\n" \o lines(Len(items)) \o "\n}"

\* StatusInfo with cost and pagecount taken from each other's field
StatusInfo_Swapped(fax_id, fax_status) ==
  << <<"fax_id", fax_id>>,
     <<"status", fax_status.status>>,
     <<"completed", fax_status.completed>>,
     <<"cost", fax_status.pagecount>>,
     <<"pagecount", fax_status.cost>>,
     <<"created_at", fax_status.created_at>> >>

\* the status_info dict _run builds
StatusInfo(fax_id, fax_status) ==
  << <<"fax_id", fax_id>>,
     <<"status", fax_status.status>>,
     <<"completed", fax_status.completed>>,
     <<"cost", fax_status.cost>>,
     <<"pagecount", fax_status.pagecount>>,
     <<"created_at", fax_status.created_at>> >>

\* StatusValidate testing `fax_id is None` instead of `not fax_id`
StatusValidate_IsNone(fax_id) ==
  IF fax_id = None THEN "Error: Fax ID is required" ELSE ""

\* the required-parameter check: its message, "" when it passes
StatusValidate(fax_id) ==
  IF ~Truthy(fax_id) THEN "Error: Fax ID is required" ELSE ""

\* StatusBody answering a repeated request from the previous call's output
StatusBody_Cached(tool, inits, query, env) ==
  LET parsed == Loads(query)
      input_data == parsed.value
      fax_id == Get(input_data, "fax_id")
      invalid == StatusValidate(fax_id)
      needInit == ~hasattr(tool, "outbox_api")
      ran == IF needInit THEN 1 ELSE 0
      tool1 == IF needInit
               THEN FaxPlusStatusTool_init_client(tool, inits + 1, env.init)
               ELSE tool
      lookup == Call("get_outbox_fax", tool1.outbox_api, [fax_id |-> fax_id],
                     env.lookup)
      cached == /\ last.tool = "status" /\ last.query = query
                /\ last.remote # <<>> /\ last.env.lookup.ok
  IN IF ~parsed.ok THEN Raised(parsed.exc, <<>>, tool, 0)
     ELSE IF input_data.t # "dict" THEN Raised(NoGet(input_data), <<>>, tool, 0)
     ELSE IF invalid # "" THEN Returned(invalid, <<>>, tool, 0)
     ELSE IF cached THEN Returned(last.result, <<>>, tool, 0)
     ELSE IF needInit /\ env.init # "ok"
     THEN Raised(InitError(env.init), <<>>, tool1, ran)
     ELSE IF ~env.lookup.ok
     THEN Raised(env.lookup.exc, <<lookup>>, tool1, ran)
     ELSE Returned(DumpItems(StatusInfo(fax_id, env.lookup.value)),
                   <<lookup>>, tool1, ran)

\* the body of the try statement of FaxPlusStatusTool._run
StatusBody(tool, inits, query, env) ==
  LET parsed == Loads(query)
      input_data == parsed.value
      fax_id == Get(input_data, "fax_id")
      invalid == StatusValidate(fax_id)
      needInit == ~hasattr(tool, "outbox_api")
      ran == IF needInit THEN 1 ELSE 0
      tool1 == IF needInit
               THEN FaxPlusStatusTool_init_client(tool, inits + 1, env.init)
               ELSE tool
      lookup == Call("get_outbox_fax", tool1.outbox_api, [fax_id |-> fax_id],
                     env.lookup)
  IN IF ~parsed.ok THEN Raised(parsed.exc, <<>>, tool, 0)
     ELSE IF input_data.t # "dict" THEN Raised(NoGet(input_data), <<>>, tool, 0)
     ELSE IF invalid # "" THEN Returned(invalid, <<>>, tool, 0)
     ELSE IF needInit /\ env.init # "ok"
     THEN Raised(InitError(env.init), <<>>, tool1, ran)
     ELSE IF ~env.lookup.ok
     THEN Raised(env.lookup.exc, <<lookup>>, tool1, ran)
     ELSE Returned(DumpItems(StatusInfo(fax_id, env.lookup.value)),
                   <<lookup>>, tool1, ran)

\* the except clauses of FaxPlusStatusTool._run
StatusExcept(body) ==
  IF body.exc.type = "JSONDecodeError"
  THEN Ends(body, FALSE,
            "Error: Invalid JSON input. Please provide a valid JSON object.")
  ELSE IF body.exc.type \in ExceptionClasses
  THEN Ends(body, FALSE, "Error checking fax status: " \o body.exc.msg)
  ELSE Ends(body, TRUE, "")

\* FaxPlusStatusTool._run(query) on a tool with the given attributes
StatusOutcome(tool, inits, query, env) ==
  LET body == StatusBody(tool, inits, query, env)
  IN IF body.raised THEN StatusExcept(body) ELSE Ends(body, FALSE, body.text)

(***************************************************************************)
(* The History handler (FaxHistoryTool).  tools.py does not define it; it  *)
(* is modelled from its description: parse the request, take the optional  *)
(* limit, list the remote faxes once, and emit one line per record with    *)
(* its id, status, recipient and date.                                     *)
(***************************************************************************)
HistoryRecord(id, status, to, date) ==
  [id |-> id, status |-> status, to |-> to, date |-> date]

HistoryRecords ==
  {HistoryRecord("fax_id_1", "success", "+12025550123", "2023-01-01T12:00:00Z"),
   HistoryRecord("fax_id_2", "failed", "+12025550456", "2023-01-02T12:00:00Z")}

RECURSIVE SeqsUpTo(_, _)
SeqsUpTo(S, n) ==
  IF n = 0 THEN {<<>>}
  ELSE LET shorter == SeqsUpTo(S, n - 1)
       IN shorter \cup {Append(q, x) : q \in shorter, x \in S}

Listed(records) == [ok |-> TRUE, value |-> records, exc |-> NoExc]
ListRaises(exc) == [ok |-> FALSE, value |-> <<>>, exc |-> exc]

\* what the remote list can answer to a request for at most limit records
ListOutcomes(limit) ==
  LET most == IF limit.t = "int" /\ limit.n < MaxRecords /\ limit.n >= 0
              THEN limit.n ELSE MaxRecords
  IN {Listed(r) : r \in SeqsUpTo(HistoryRecords, most)}
     \cup {ListRaises(Exc("ApiException", "(401) Unauthorized"))}

HistoryEnv(list, caught) == [list |-> list, caught |-> caught]

\* the line for one record
HistoryLine(record) ==
  [id |-> record.id, status |-> record.status, to |-> record.to,
   date |-> record.date,
   text |-> record.id \o " | " \o record.status \o " | " \o record.to
            \o " | " \o record.date]

\* HistoryLines leaving out the last record
HistoryLines_DropsLast(records) ==
  [i \in 1..(Len(records) - 1) |-> HistoryLine(records[i])]

HistoryLines(records) == [i \in 1..Len(records) |-> HistoryLine(records[i])]

RECURSIVE JoinLines(_)
JoinLines(lines) ==
  IF lines = <<>> THEN ""
  ELSE IF Len(lines) = 1 THEN lines[1].text
  ELSE JoinLines(SubSeq(lines, 1, Len(lines) - 1)) \o "\n"
       \o lines[Len(lines)].text

\* the request as a mapping, from JSON text or from the mapping itself
HistoryInput(query) ==
  IF query.t = "dict" THEN [ok |-> TRUE, value |-> query, exc |-> NoExc]
  ELSE Loads(query)

\* the limit of a request, None when it gives none
HistoryLimit(query) ==
  LET parsed == HistoryInput(query)
  IN IF parsed.ok /\ parsed.value.t = "dict"
     THEN Get(parsed.value, "limit") ELSE None

\* one call of the History handler: {escaped, result, exc, remote, lines}
HistoryOutcome(query, env) ==
  LET parsed == HistoryInput(query)
      limit == HistoryLimit(query)
      list == Call("get_fax_list", 0, [limit |-> limit], env.list)
      lines == HistoryLines(env.list.value)
  IN IF ~parsed.ok \/ parsed.value.t # "dict"
     THEN [escaped |-> FALSE,
           result |-> "Error: Invalid JSON input. Please provide a valid JSON object.",
           exc |-> NoExc, remote |-> <<>>, lines |-> <<>>]
     ELSE IF ~env.list.ok
     THEN IF env.caught
          THEN [escaped |-> FALSE,
                result |-> "Error retrieving fax history: " \o env.list.exc.msg,
                exc |-> NoExc, remote |-> <<list>>, lines |-> <<>>]
          ELSE [escaped |-> TRUE, result |-> "", exc |-> env.list.exc,
                remote |-> <<list>>, lines |-> <<>>]
     ELSE [escaped |-> FALSE, result |-> JoinLines(lines), exc |-> NoExc,
           remote |-> <<list>>, lines |-> lines]

(***************************************************************************)
(* The inputs of the calls.                                                *)
(***************************************************************************)
Absent == [j |-> "absent"]

\* the member of a JSON object for one key, none when the value is Absent
Member(key, value) == IF value = Absent THEN <<>> ELSE << <<key, value>> >>

\* json.dumps of a request mapping: the JSON text that serialises it
ToJsonScalar(x) ==
  CASE x.t = "NoneType" -> JNull
    [] x.t = "str" -> JStr(x.s)
    [] x.t = "int" -> JNum(x.n)
    [] x.t = "list" -> JArr(x.len)

Dumps(x) ==
  IF x.t = "dict"
  THEN Text(JObj([i \in 1..Len(x.items) |->
                    <<x.items[i][1], ToJsonScalar(x.items[i][2])>>]))
  ELSE Text(ToJsonScalar(x))

\* texts that are no JSON, or JSON whose top-level value is no object
NonObjectTexts ==
  {Text(JInvalid), Text(JArr(2)), Text(JNum(42)), Text(JStr("send a fax")),
   Text(JNull)}

FaxNumberValues == {Absent, JNull, JStr("+14155552671")}
SubjectValues == {Absent, JStr("Invoice")}
FilePathValues == {Absent, JStr(""), JStr(PathA), JStr(PathB)}

\* requests without a comment, and one complete request with a comment
SendObjects ==
  {JObj(Member("fax_number", n) \o Member("subject", s)
        \o Member("file_path", f)) :
     n \in FaxNumberValues, s \in SubjectValues, f \in FilePathValues}
  \cup {JObj(<< <<"fax_number", JStr("+14155552671")>>,
                <<"subject", JStr("Invoice")>>,
                <<"file_path", JStr(PathA)>>,
                <<"comment", JStr("urgent")>> >>)}

\* the query is JSON text, or (as the tests pass it) the mapping itself
SendQueries ==
  {Text(o) : o \in SendObjects} \cup NonObjectTexts
  \cup {FromJson(o) : o \in {x \in SendObjects : Len(x.members) \in {0, 4}}}

FaxIdValues ==
  {Absent, JNull, JStr(""), JNum(0), JStr("fax-1"), JNum(7)}

StatusObjects == {JObj(Member("fax_id", i)) : i \in FaxIdValues}

StatusQueries ==
  {Text(o) : o \in StatusObjects} \cup NonObjectTexts
  \cup {FromJson(o) : o \in {x \in StatusObjects : x.members # <<>>}}

HistoryObjects ==
  {JObj(Member("limit", l)) : l \in {Absent, JNum(1), JNum(2)}}

HistoryQueries ==
  {Text(o) : o \in HistoryObjects} \cup {Text(JInvalid), Text(JArr(2))}
  \cup {FromJson(JObj(Member("limit", JNum(2))))}

\* whether a query gets past parsing and the required-parameter checks
SendValidated(query) ==
  LET parsed == Loads(query)
      d == parsed.value
  IN /\ parsed.ok
     /\ d.t = "dict"
     /\ SendValidate(Get(d, "fax_number"), Get(d, "subject"),
                     Get(d, "file_path")) = ""

\* the environments a Send call can meet: an outcome for each thing the call
\* consults, and "n/a" (NotCalled) for what it never reaches
SendEnvs(tool, query) ==
  IF ~SendValidated(query)
  THEN {SendEnv("n/a", "n/a", NotCalled, NotCalled)}
  ELSE LET inits == IF hasattr(tool, "files_api") THEN {"n/a"}
                    ELSE SendInitOutcomes
           outbox(i) == IF i = "n/a" THEN hasattr(tool, "outbox_api") ELSE TRUE
       IN {SendEnv("missing", "n/a", NotCalled, NotCalled)}
          \cup {SendEnv(fs, i, NotCalled, NotCalled) :
                  fs \in {"file", "unreadable"}, i \in inits \ {"n/a", "ok"}}
          \cup {SendEnv("unreadable", i, NotCalled, NotCalled) :
                  i \in inits \cap {"n/a", "ok"}}
          \cup {SendEnv("file", i, u, NotCalled) :
                  i \in inits \cap {"n/a", "ok"},
                  u \in {x \in UploadOutcomes : ~x.ok}}
          \cup {SendEnv("file", i, u, NotCalled) :
                  i \in {x \in inits \cap {"n/a", "ok"} : ~outbox(x)},
                  u \in {x \in UploadOutcomes : x.ok}}
          \cup {SendEnv("file", i, u, s) :
                  i \in {x \in inits \cap {"n/a", "ok"} : outbox(x)},
                  u \in {x \in UploadOutcomes : x.ok}, s \in SubmitOutcomes}

StatusValidated(query) ==
  LET parsed == Loads(query)
      d == parsed.value
  IN parsed.ok /\ d.t = "dict" /\ StatusValidate(Get(d, "fax_id")) = ""

StatusEnvs(tool, query) ==
  IF ~StatusValidated(query) THEN {StatusEnv("n/a", NoLookup)}
  ELSE IF hasattr(tool, "outbox_api")
  THEN {StatusEnv("n/a", l) : l \in LookupOutcomes}
  ELSE {StatusEnv(i, NoLookup) : i \in StatusInitOutcomes \ {"ok"}}
       \cup {StatusEnv("ok", l) : l \in LookupOutcomes}

HistoryEnvs(query) ==
  LET parsed == HistoryInput(query)
  IN IF ~parsed.ok \/ parsed.value.t # "dict"
     THEN {HistoryEnv(ListRaises(Exc("n/a", "")), FALSE)}
     ELSE {e \in [list : ListOutcomes(HistoryLimit(query)), caught : BOOLEAN] :
             e.list.ok => ~e.caught}

(***************************************************************************)
(* The example workflow: its State, what its node functions compute, and   *)
(* what its edges deliver.  The language model and the graph library are   *)
(* outside the repository: a response is a choice from a few texts, with   *)
(* the string operations of the code worked out on those texts.            *)
(***************************************************************************)
PyBool(b) == [t |-> "bool", b |-> b]

\* the document details a run starts from, as main() builds them
DocumentDetails ==
  {[messages |-> <<>>, document_path |-> p, document_type |-> "invoice",
    recipient_fax |-> n, should_fax |-> FALSE, fax_id |-> "", subject |-> ""] :
     p \in {PathA, PathB}, n \in {"+14155552671", ""}}

\* the State as the Python dict it is
StateDict(state) ==
  PyDict(<< <<"messages", PyList(Len(state.messages))>>,
            <<"document_path", PyStr(state.document_path)>>,
            <<"document_type", PyStr(state.document_type)>>,
            <<"recipient_fax", PyStr(state.recipient_fax)>>,
            <<"should_fax", PyBool(state.should_fax)>>,
            <<"fax_id", PyStr(state.fax_id)>>,
            <<"subject", PyStr(state.subject)>> >>)

\* answers of the language model to the analyzer prompt
AnalyzerResponses ==
  {"YES. Invoices are always faxed.", "yes, fax it",
   "No. Memos stay in house.", "No: for your eyes only."}

\* "YES" in content.upper(): a substring test, so "eyes" counts
HasYES(content) ==
  content \in {"YES. Invoices are always faxed.", "yes, fax it",
               "No: for your eyes only."}

\* answers of the language model to the subject prompt
SubjectResponses == {"Subject: Invoice", "Invoice", " Subject: "}

\* content.strip(), then what follows the first ":" (stripped) if there is one
ExtractSubject(content) ==
  CASE content = "Subject: Invoice" -> "Invoice"
    [] content = "Invoice" -> "Invoice"
    [] content = " Subject: " -> ""

analyze_document(state, content) ==
  [state EXCEPT !.messages = Append(@, content),
                !.should_fax = HasYES(content)]

generate_subject(state, content) ==
  LET subject == ExtractSubject(content)
  IN [state EXCEPT !.messages = Append(@, "Generated subject: " \o subject),
                   !.subject = subject]

ToolInvocation(tool, tool_input) ==
  [t |-> "ToolInvocation", tool |-> tool, tool_input |-> tool_input]

prepare_fax_data(state) ==
  ToolInvocation("faxplus",
    Dumps(PyDict(<< <<"fax_number", PyStr(state.recipient_fax)>>,
                    <<"subject", PyStr(state.subject)>>,
                    <<"file_path", PyStr(state.document_path)>>,
                    <<"comment", PyStr("Automated fax of "
                                       \o state.document_type
                                       \o " document")>> >>)))

\* in a run the remote service may also accept a fax and return an empty id
WorkflowSubmitOutcomes == SubmitOutcomes \cup {Ret("")}

WorkflowSendEnvs(tool, query) ==
  SendEnvs(tool, query)
  \cup {[e EXCEPT !.submit = Ret("")] :
          e \in {x \in SendEnvs(tool, query) : x.submit.ok}}

\* the ids o for which the result is "...Fax ID:" followed by " " and o; the
\* error texts of the handlers hold no "Fax ID:"
FaxIdsIn(result) ==
  {o.value : o \in {x \in WorkflowSubmitOutcomes :
                      /\ x.ok
                      /\ result = "Fax successfully queued. " \o "Fax ID:"
                                    \o " " \o x.value}}

\* "Fax ID:" in result
HasFaxIdMarker(result) == FaxIdsIn(result) # {}

\* result.split("Fax ID:")[1].strip(); the ids have no blanks to strip
SplitFaxId(result) == CHOOSE id \in FaxIdsIn(result) : TRUE

process_fax_result(state, result) ==
  LET fax_id == IF HasFaxIdMarker(result) THEN SplitFaxId(result) ELSE ""
  IN [state EXCEPT !.messages = Append(@, result), !.fax_id = fax_id]

process_status_result(state, result) ==
  [state EXCEPT !.messages = Append(@, "Current fax status: " \o result)]

should_send_fax(state) == IF state.should_fax THEN "send_fax" ELSE "end"

has_fax_id(state) == IF state.fax_id # "" THEN "check_status" ELSE "end"

\* What a tool node does with the value its incoming edge delivers.  An edge
\* with a transformer delivers the ToolInvocation it builds, and the node
\* runs its tool on the tool_input.  The conditional edge into check_status
\* has no transformer (prepare_status_check is attached to no edge), so that
\* node gets the State: the library, which is not in the repository, either
\* hands it to the tool as it is or raises.
ToolNode(input) ==
  IF input.t = "ToolInvocation"
  THEN {[called |-> TRUE, query |-> input.tool_input]}
  ELSE {[called |-> TRUE, query |-> input],
        [called |-> FALSE, query |-> input]}

NoInput == [t |-> "none"]
NoToolCall == [made |-> FALSE, query |-> NoInput, result |-> "", remote |-> <<>>]
ToolCall(query, o) ==
  [made |-> TRUE, query |-> query, result |-> o.result, remote |-> o.remote]

\* no workflow was created
NoWorkflow ==
  [node |-> "none", state |-> <<>>, input |-> NoInput, result |-> "",
   ran |-> <<>>, sent |-> NoToolCall, asked |-> NoToolCall]

(***************************************************************************)
(* The state machine: each action is one whole call of a handler.          *)
(***************************************************************************)
NoCall ==
  [tool |-> "none", query |-> Text(JInvalid), env |-> <<>>, escaped |-> FALSE,
   result |-> "", exc |-> NoExc, remote |-> <<>>, lines |-> <<>>,
   ran |-> 0, pre |-> [tool |-> NoSendClients, inits |-> 0]]

Init ==
  /\ sendTool = NoSendClients
  /\ sendInits = 0
  /\ statusTool = NoStatusClients
  /\ statusInits = 0
  /\ last = NoCall
  /\ wf = NoWorkflow

\* a call of FaxPlusTool._run
FaxPlusTool_run ==
  \E query \in SendQueries :
    \E env \in SendEnvs(sendTool, query) :
      LET o == SendOutcome(sendTool, sendInits, query, env)
      IN /\ sendInits + o.ran <= MaxInits
         /\ sendTool' = o.tool
         /\ sendInits' = sendInits + o.ran
         /\ last' = [tool |-> "send", query |-> query, env |-> env,
                     escaped |-> o.escaped, result |-> o.result,
                     exc |-> o.exc, remote |-> o.remote, lines |-> <<>>,
                     ran |-> o.ran,
                     pre |-> [tool |-> sendTool, inits |-> sendInits]]
         /\ UNCHANGED <<statusTool, statusInits, wf>>

\* a call of FaxPlusStatusTool._run
FaxPlusStatusTool_run ==
  \E query \in StatusQueries :
    \E env \in StatusEnvs(statusTool, query) :
      LET o == StatusOutcome(statusTool, statusInits, query, env)
      IN /\ statusInits + o.ran <= MaxInits
         /\ statusTool' = o.tool
         /\ statusInits' = statusInits + o.ran
         /\ last' = [tool |-> "status", query |-> query, env |-> env,
                     escaped |-> o.escaped, result |-> o.result,
                     exc |-> o.exc, remote |-> o.remote, lines |-> <<>>,
                     ran |-> o.ran,
                     pre |-> [tool |-> statusTool, inits |-> statusInits]]
         /\ UNCHANGED <<sendTool, sendInits, wf>>

\* a call of the History handler
FaxHistoryTool_run ==
  \E query \in HistoryQueries :
    \E env \in HistoryEnvs(query) :
      LET o == HistoryOutcome(query, env)
      IN /\ last' = [tool |-> "history", query |-> query, env |-> env,
                     escaped |-> o.escaped, result |-> o.result,
                     exc |-> o.exc, remote |-> o.remote, lines |-> o.lines,
                     ran |-> 0,
                     pre |-> [tool |-> NoSendClients, inits |-> 0]]
         /\ UNCHANGED <<sendTool, sendInits, statusTool, statusInits, wf>>

Next == FaxPlusTool_run \/ FaxPlusStatusTool_run \/ FaxHistoryTool_run

Spec == Init /\ [][Next]_vars

(***************************************************************************)
(* One run of the example workflow.  wf.node is the node to run next       *)
(* ("END" when the run finished, "raised" when an exception ended it),     *)
(* wf.state the State, wf.input what the incoming edge delivers, wf.result *)
(* what the tool node before handed on, wf.ran the nodes run so far, and   *)
(* wf.sent / wf.asked the call the send_fax / check_status node made.      *)
(***************************************************************************)
InitWorkflow ==
  /\ sendTool = NoSendClients
  /\ sendInits = 0
  /\ statusTool = NoStatusClients
  /\ statusInits = 0
  /\ last = NoCall
  /\ \E details \in DocumentDetails :
       wf = [node |-> "analyze_document", state |-> details,
             input |-> NoInput, result |-> "", ran |-> <<>>,
             sent |-> NoToolCall, asked |-> NoToolCall]

\* node analyze_document and its conditional edge (should_send_fax)
Node_analyze_document ==
  /\ wf.node = "analyze_document"
  /\ \E response \in AnalyzerResponses :
       LET state == analyze_document(wf.state, response)
       IN wf' = [wf EXCEPT !.state = state,
                           !.ran = Append(@, "analyze_document"),
                           !.node = IF should_send_fax(state) = "send_fax"
                                    THEN "generate_subject" ELSE "END"]
  /\ UNCHANGED <<sendTool, sendInits, statusTool, statusInits, last>>

\* node generate_subject and its edge to send_fax (prepare_fax_data)
Node_generate_subject ==
  /\ wf.node = "generate_subject"
  /\ \E response \in SubjectResponses :
       LET state == generate_subject(wf.state, response)
       IN wf' = [wf EXCEPT !.state = state,
                           !.ran = Append(@, "generate_subject"),
                           !.input = prepare_fax_data(state),
                           !.node = "send_fax"]
  /\ UNCHANGED <<sendTool, sendInits, statusTool, statusInits, last>>

\* node send_fax, ToolNode(fax_tool), and its edge to process_fax_result
Node_send_fax ==
  /\ wf.node = "send_fax"
  /\ \E how \in ToolNode(wf.input) :
       IF how.called
       THEN \E env \in WorkflowSendEnvs(sendTool, how.query) :
              LET o == SendOutcome(sendTool, sendInits, how.query, env)
              IN /\ sendTool' = o.tool
                 /\ sendInits' = sendInits + o.ran
                 /\ last' = [tool |-> "send", query |-> how.query,
                             env |-> env, escaped |-> o.escaped,
                             result |-> o.result, exc |-> o.exc,
                             remote |-> o.remote, lines |-> <<>>,
                             ran |-> o.ran,
                             pre |-> [tool |-> sendTool, inits |-> sendInits]]
                 /\ wf' = [wf EXCEPT !.ran = Append(@, "send_fax"),
                                     !.sent = ToolCall(how.query, o),
                                     !.result = o.result,
                                     !.input = NoInput,
                                     !.node = "process_fax_result"]
       ELSE /\ wf' = [wf EXCEPT !.ran = Append(@, "send_fax"),
                                !.node = "raised"]
            /\ UNCHANGED <<sendTool, sendInits, last>>
  /\ UNCHANGED <<statusTool, statusInits>>

\* node process_fax_result and its conditional edge (has_fax_id), which
\* delivers the State
Node_process_fax_result ==
  /\ wf.node = "process_fax_result"
  /\ LET state == process_fax_result(wf.state, wf.result)
     IN wf' = [wf EXCEPT !.state = state,
                         !.ran = Append(@, "process_fax_result"),
                         !.input = IF has_fax_id(state) = "check_status"
                                   THEN StateDict(state) ELSE NoInput,
                         !.node = IF has_fax_id(state) = "check_status"
                                  THEN "check_status" ELSE "END"]
  /\ UNCHANGED <<sendTool, sendInits, statusTool, statusInits, last>>

\* node check_status, ToolNode(fax_status_tool), and its edge to
\* process_status_result
Node_check_status ==
  /\ wf.node = "check_status"
  /\ \E how \in ToolNode(wf.input) :
       IF how.called
       THEN \E env \in StatusEnvs(statusTool, how.query) :
              LET o == StatusOutcome(statusTool, statusInits, how.query, env)
              IN /\ statusTool' = o.tool
                 /\ statusInits' = statusInits + o.ran
                 /\ last' = [tool |-> "status", query |-> how.query,
                             env |-> env, escaped |-> o.escaped,
                             result |-> o.result, exc |-> o.exc,
                             remote |-> o.remote, lines |-> <<>>,
                             ran |-> o.ran,
                             pre |-> [tool |-> statusTool,
                                      inits |-> statusInits]]
                 /\ wf' = [wf EXCEPT !.ran = Append(@, "check_status"),
                                     !.asked = ToolCall(how.query, o),
                                     !.result = o.result,
                                     !.input = NoInput,
                                     !.node = "process_status_result"]
       ELSE /\ wf' = [wf EXCEPT !.ran = Append(@, "check_status"),
                                !.node = "raised"]
            /\ UNCHANGED <<statusTool, statusInits, last>>
  /\ UNCHANGED <<sendTool, sendInits>>

\* node process_status_result, which has no outgoing edge
Node_process_status_result ==
  /\ wf.node = "process_status_result"
  /\ wf' = [wf EXCEPT !.state = process_status_result(wf.state, wf.result),
                      !.ran = Append(@, "process_status_result"),
                      !.node = "END"]
  /\ UNCHANGED <<sendTool, sendInits, statusTool, statusInits, last>>

NextWorkflow ==
  \/ Node_analyze_document
  \/ Node_generate_subject
  \/ Node_send_fax
  \/ Node_process_fax_result
  \/ Node_check_status
  \/ Node_process_status_result

SpecWorkflow == InitWorkflow /\ [][NextWorkflow]_vars

(***************************************************************************)
(* The claims.  They speak of the most recent call, recorded in last: its  *)
(* query, the outcomes the environment gave (env), the remote calls it     *)
(* made (remote) and how it ended (result, escaped).                       *)
(***************************************************************************)
\* the last query is JSON text spelling an object
IsObjectText == last.query.t = "text" /\ last.query.doc.j = "object"

\* the request the last query spells
Request == IF IsObjectText THEN FromJson(last.query.doc) ELSE PyDict(<<>>)

\* the message of the first Send check the last request fails, "" if none
FirstFailedCheck ==
  IF ~Truthy(Get(Request, "fax_number"))
  THEN "Error: Recipient fax number is required"
  ELSE IF ~Truthy(Get(Request, "subject")) THEN "Error: Subject is required"
  ELSE IF ~Truthy(Get(Request, "file_path")) THEN "Error: File path is required"
  ELSE IF last.env.fs = "missing"
  THEN "Error: File not found at " \o Str(Get(Request, "file_path"))
  ELSE ""

C4_MalformedInput ==
  (/\ last.tool \in {"send", "status"}
   /\ last.query.t = "text" /\ last.query.doc.j # "object") =>
    /\ last.result
         = "Error: Invalid JSON input. Please provide a valid JSON object."
    /\ last.remote = <<>>

\* what the handler of the last call gives for the JSON text that serialises
\* the mapping it was called with, in some environment it can meet
TextCallAgrees ==
  LET text == Dumps(last.query)
  IN IF last.tool = "send"
     THEN \E e \in SendEnvs(last.pre.tool, text) :
            LET o == SendOutcome(last.pre.tool, last.pre.inits, text, e)
            IN o.result = last.result /\ o.remote = last.remote
               /\ o.escaped = last.escaped
     ELSE \E e \in StatusEnvs(last.pre.tool, text) :
            LET o == StatusOutcome(last.pre.tool, last.pre.inits, text, e)
            IN o.result = last.result /\ o.remote = last.remote
               /\ o.escaped = last.escaped

\* C5: a handler called with a request mapping gives the result and the remote
\* calls it gives when called with the JSON text that serialises the mapping.
C5_MappingAsText ==
  (last.tool \in {"send", "status"} /\ last.query.t = "dict") => TextCallAgrees

C7_MissingFaxId ==
  (last.tool = "status" /\ IsObjectText /\ ~Truthy(Get(Request, "fax_id"))) =>
    /\ ~last.escaped
    /\ last.result = "Error: Fax ID is required"
    /\ last.remote = <<>>

\* the request {} was answered with the message
C7_Witness ==
  /\ last.tool = "status" /\ IsObjectText
  /\ Request.items = <<>>
  /\ last.result = "Error: Fax ID is required"

\* the key/value block for a requested id and a returned record
StatusBlock(fax_id, record) ==
  "{\n  \"fax_id\": " \o DumpValue(fax_id)
  \o ",\n  \"status\": " \o DumpValue(record.status)
  \o ",\n  \"completed\": " \o DumpValue(record.completed)
  \o ",\n  \"cost\": " \o DumpValue(record.cost)
  \o ",\n  \"pagecount\": " \o DumpValue(record.pagecount)
  \o ",\n  \"created_at\": " \o DumpValue(record.created_at)
  \o "\n}"

C9_HistoryLines ==
  (last.tool = "history" /\ last.env.list.ok) =>
    /\ Len(last.remote) = 1
    /\ last.remote[1].op = "get_fax_list"
    /\ ~last.escaped
    /\ Len(last.lines) = Len(last.env.list.value)
    /\ \A i \in 1..Len(last.lines) :
         /\ last.lines[i].id = last.env.list.value[i].id
         /\ last.lines[i].status = last.env.list.value[i].status
    /\ last.result = JoinLines(last.lines)

\* limit 2 with fax_id_1/success and fax_id_2/failed gave both lines
C9_Witness ==
  /\ last.tool = "history"
  /\ HistoryLimit(last.query) = PyInt(2)
  /\ Len(last.lines) = 2
  /\ last.lines[1].id = "fax_id_1" /\ last.lines[1].status = "success"
  /\ last.lines[2].id = "fax_id_2" /\ last.lines[2].status = "failed"

\* C10 as stated: on each instance _init_client runs at most once, and the
\* clients held are those of that one run.
C10_InitAtMostOnce ==
  /\ sendInits <= 1 /\ sendTool.files_api \in {0, 1}
  /\ statusInits <= 1 /\ statusTool.outbox_api \in {0, 1}

\* the last call got past validation (for Send, the file exists too)
PassedValidation ==
  /\ IsObjectText
  /\ last.tool = "send" => FirstFailedCheck = ""
  /\ last.tool = "status" => Truthy(Get(Request, "fax_id"))

\* the client each remote call of the last call went through
ClientsUsed ==
  {<<last.remote[i].op, last.remote[i].client>> : i \in 1..Len(last.remote)}

\* C10, amended: _init_client runs only in a call that passed validation and
\* only while the instance lacks the client its check looks for (files_api for
\* Send, outbox_api for Status), so it runs again after a run that raised
\* before storing that client; once that client is stored _init_client never
\* runs again, no client attribute is reset or replaced, and every remote call
\* goes through the stored client.
C10_LazyWriteOnce ==
  [][/\ sendInits' \in {sendInits, sendInits + 1}
     /\ sendInits' # sendInits =>
          /\ last'.tool = "send" /\ PassedValidation'
          /\ sendTool.files_api = 0
     /\ sendTool.files_api # 0 => sendTool' = sendTool /\ sendInits' = sendInits
     /\ sendTool.outbox_api # 0 => sendTool'.outbox_api = sendTool.outbox_api
     /\ sendTool.accounts_api # 0 =>
          sendTool'.accounts_api = sendTool.accounts_api
     /\ last'.tool = "send" =>
          ClientsUsed' \subseteq {<<"upload_file", sendTool'.files_api>>,
                                  <<"send_fax", sendTool'.outbox_api>>}
     /\ statusInits' \in {statusInits, statusInits + 1}
     /\ statusInits' # statusInits =>
          /\ last'.tool = "status" /\ PassedValidation'
          /\ statusTool.outbox_api = 0
     /\ statusTool.outbox_api # 0 =>
          statusTool' = statusTool /\ statusInits' = statusInits
     /\ last'.tool = "status" =>
          ClientsUsed' \subseteq {<<"get_outbox_fax", statusTool'.outbox_api>>}
     /\ last'.tool \in {"send", "status"} => \A c \in ClientsUsed' : c[2] # 0
    ]_vars

\* _init_client ran twice (its first run raised), and a later call sent a fax
\* through the clients of the second run without running it again
C10_Witness ==
  /\ sendInits = 2 /\ sendTool.files_api = 2
  /\ last.tool = "send" /\ last.ran = 0
  /\ Len(last.remote) = 2
  /\ last.remote[1].client = 2 /\ last.remote[2].client = 2

\* C13: a Send instance holds none of its three clients or all three, so a
\* call that finds files_api and skips _init_client has an outbox client: once
\* its upload returned, it submits.
C13_AllOrNone ==
  /\ \/ sendTool = NoSendClients
     \/ /\ sendTool.files_api # 0
        /\ sendTool.outbox_api # 0
        /\ sendTool.accounts_api # 0
  /\ (/\ last.tool = "send"
      /\ last.pre.tool.files_api # 0
      /\ last.env.upload.ok) =>
       /\ Len(last.remote) = 2
       /\ last.remote[2].op = "send_fax"

\* the last call was a Status call that got a record from the remote service
GotRecord == last.tool = "status" /\ last.env.lookup.ok

Issued(op) == SelectSeq(last.remote, LAMBDA c : c.op = op)

\* the last call was a Send call that got to the submission step: its upload
\* returned, so control is at self.outbox_api.send_fax(...)
ReachedSubmission == last.tool = "send" /\ last.env.upload.ok

\* C11: the Send handler keeps no record of earlier sends.  No call issues more
\* than one upload or more than one submission (no retry), a call that reaches
\* the submission step issues exactly one upload and one submission of its own,
\* and a call that does not reach it submits nothing: k calls that reach
\* submission make k submissions.
C11_OwnSubmission ==
  last.tool = "send" =>
    /\ Len(Issued("upload_file")) <= 1
    /\ Len(Issued("send_fax")) <= 1
    /\ Len(last.remote) = Len(Issued("upload_file")) + Len(Issued("send_fax"))
    /\ ReachedSubmission =>
         /\ Len(Issued("upload_file")) = 1
         /\ Len(Issued("send_fax")) = 1
    /\ ~ReachedSubmission => Len(Issued("send_fax")) = 0

\* the node has run in this workflow run
Ran(node) == \E i \in 1..Len(wf.ran) : wf.ran[i] = node

\* the Send call of the run failed: no submission of it returned
SendFailed ==
  /\ wf.sent.made
  /\ ~\E i \in 1..Len(wf.sent.remote) :
        /\ wf.sent.remote[i].op = "send_fax"
        /\ wf.sent.remote[i].outcome.ok

\* the request the Status tool reads from the query the run gave it: the
\* fax_id of the object it parses, None when the query does not parse
AskedFaxId ==
  LET parsed == Loads(wf.asked.query)
  IN IF parsed.ok /\ parsed.value.t = "dict"
     THEN Get(parsed.value, "fax_id") ELSE None

\* C14: in a run of the example workflow, send_fax runs only when the
\* analysis set should_fax; check_status is reached only after send_fax
\* returned a result holding "Fax ID:" and a non-empty id, and the Status tool
\* is then called with exactly that id; a Send result that is an error
\* message ends the run without a status check.
C14_WorkflowRouting ==
  /\ Ran("send_fax") => wf.state.should_fax
  /\ (wf.node = "check_status" \/ Ran("check_status")) =>
       /\ wf.sent.made
       /\ HasFaxIdMarker(wf.sent.result)
       /\ SplitFaxId(wf.sent.result) # ""
  /\ Ran("check_status") =>
       /\ wf.asked.made
       /\ AskedFaxId = PyStr(SplitFaxId(wf.sent.result))
  /\ SendFailed =>
       /\ wf.node \in {"process_fax_result", "END"}
       /\ ~Ran("check_status")
       /\ ~wf.asked.made

====
